---------------------------- MODULE Spec2Model ----------------------------
(***************************************************************************)
(* The emulator session lifecycle controller of                            *)
(* frontend/src/views/Player/EmulatorJS/Player.vue: Bootstrap (the body of *)
(* <script setup>), onMounted, the game-identifier watcher, the            *)
(* game-started sequence, the deferred cheat apply and onBeforeUnmount.    *)
(*                                                                         *)
(* JavaScript runs every piece of code between two awaits to completion,   *)
(* so an action is one such piece: from an event (a runtime hook, a timer, *)
(* a backend response) to the handler's next await or its end.             *)
(***************************************************************************)
EXTENDS Naturals, Sequences, FiniteSets, TLC

(* ------------------------------ bounds -------------------------------- *)

\* Game-started events, game-identifier changes and re-mounts, together.
MaxEvents == 2
\* Distinct cheat entries the backend holds (and so the longest cheat list).
MaxCheats == 2
\* Longest raw game title, in characters.
MaxTitle == 3
\* Save-and-quit clicks whose handlers are suspended at the same time.
MaxClicks == 2
\* Requests of the cheat panel in flight at the same time.
MaxRequests == 2

(* ------------------------------- data --------------------------------- *)

Sessions == 1..(MaxEvents + 1)
TaskIds  == 1..(2 * MaxEvents + 2)
RomIds   == {123, 456}

CheatName(i) ==
    CASE i = 1 -> "Infinite Lives"
      [] i = 2 -> "Invincibility"
      [] OTHER -> "Infinite Lives (Updated)"

CheatCodeOf(i) ==
    CASE i = 1 -> "SXYIZVSE"
      [] i = 2 -> "AEKZZZIA"
      [] OTHER -> "ABCD-1234"

\* One record of the cheat service's list response.
CheatEntry(i) == [id |-> i, name |-> CheatName(i), code |-> CheatCodeOf(i)]

\* The lists getCheatCodes can resolve with: the backend's entries from id a
\* to id b, in that order (none when a > b).
CheatLists ==
    {[i \in 1..(b - a + 1) |-> CheatEntry(a + i - 1)] :
        <<a, b>> \in {x \in (1..MaxCheats) \X (1..MaxCheats) : x[1] <= x[2]}}
      \cup {<<>>}

\* What a backend pull (api.get with responseType arraybuffer) settles with:
\* a non-empty buffer, a zero-length buffer (an object, so truthy), no data
\* at all (falsy), or a rejection.
PullResults == {"bytes", "emptyBytes", "nothing", "reject"}

\* The cheat-table surface updateEmulatorCheats finds on window.EJS_emulator.
Surfaces == {"noGameManager", "noResetCheat", "noSetCheat", "ready"}

PropsSet == [save : BOOLEAN, state : BOOLEAN]

NoList == [st |-> "none", list |-> <<>>]

(* ------------------------- pure functions ----------------------------- *)

\* A call of a native runtime method, or an assignment to the runtime's
\* settings, made on behalf of session `by`.
Call(op, idx, enabled, arg, by) ==
    [op |-> op, idx |-> idx, enabled |-> enabled, arg |-> arg, by |-> by]

Note(msg, cls) == [msg |-> msg, cls |-> cls]

\* formatCheatCodesForEmulatorJS with the pair built as [code, name].
formatCheatCodesForEmulatorJS_Swapped(cheatCodes) ==
    IF Len(cheatCodes) = 0
    THEN <<>>
    ELSE [i \in 1..Len(cheatCodes) |-> <<cheatCodes[i].code, cheatCodes[i].name>>]

formatCheatCodesForEmulatorJS(cheatCodes) ==
    IF Len(cheatCodes) = 0
    THEN <<>>
    ELSE [i \in 1..Len(cheatCodes) |-> <<cheatCodes[i].name, cheatCodes[i].code>>]

\* window.EJS_emulator.displayMessage(message, duration): a TypeError when the
\* runtime instance does not exist yet, one notification otherwise.
displayMessage(present, msg, cls) ==
    [thrown |-> ~present, notes |-> IF present THEN <<Note(msg, cls)>> ELSE <<>>]

\* The runtime's cheat table: whether it is followed, whether a whole write
\* sequence (a reset and the set-cheat calls) has been made, and the codes it
\* holds by index.
NoTable    == [on |-> FALSE, written |-> FALSE, codes |-> <<>>]
EmptyTable == [on |-> TRUE, written |-> FALSE, codes |-> <<>>]

RECURSIVE TableAfter(_, _)
\* gameManager.resetCheat() empties the table and gameManager.setCheat(index,
\* enabled, code) puts code at index: the codes after the calls cs.
TableAfter(codes, cs) ==
    IF cs = <<>> THEN codes
    ELSE LET c == Head(cs)
         IN  TableAfter(CASE c.op = "resetCheat" -> <<>>
                          [] c.op = "setCheat" ->
                               [i \in 1..(IF c.idx + 1 > Len(codes) THEN c.idx + 1 ELSE Len(codes)) |->
                                   IF i = c.idx + 1 THEN c.arg
                                   ELSE IF i <= Len(codes) THEN codes[i] ELSE ""]
                          [] OTHER -> codes,
                        Tail(cs))

\* The native calls and notifications of one run of updateEmulatorCheats over
\* cheat buffer `buf`, when the runtime exposes `surface`.
updateEmulatorCheats(surface, buf, by) ==
    LET reset == Call("resetCheat", 0, FALSE, "", by)
        cheats == [i \in 1..Len(buf) |-> [desc |-> buf[i][1], code |-> buf[i][2], checked |-> FALSE]]
        sets == [i \in 1..Len(cheats) |-> Call("setCheat", i - 1, cheats[i].checked, cheats[i].code, by)]
    IN  CASE surface = "noGameManager" ->
               \* line 463: early return
               [calls |-> <<>>, notes |-> <<>>]
          [] surface = "noResetCheat" ->
               \* line 472 calls a non-function: TypeError, outer catch (537-544)
               [calls |-> <<>>,
                notes |-> displayMessage(TRUE, "Failed to update emulator cheats", "msg-error").notes]
          [] surface = "noSetCheat" ->
               \* line 472 has reset the table before the check of 502-510 returns
               [calls |-> <<reset>>, notes |-> <<>>]
          [] OTHER ->
               \* lines 472, 513, 516-522
               [calls |-> <<reset, reset>> \o sets, notes |-> <<>>]

\* BufferAfterFetch with the fetched entries pushed onto the buffer.
BufferAfterFetch_Splice(buf, cheatCodes) ==
    IF Len(cheatCodes) > 0 THEN buf \o formatCheatCodesForEmulatorJS(cheatCodes) ELSE buf

\* lines 129-133 of loadCheatCodes: the buffer after a fetch that resolved.
BufferAfterFetch(buf, cheatCodes) ==
    IF Len(cheatCodes) > 0 THEN formatCheatCodesForEmulatorJS(cheatCodes) ELSE buf

\* FetchRejected with a fetchCheatCodes that rethrows after notifying, so that
\* the catch of loadCheatCodes notifies as well.
FetchRejected_Rethrow(present) ==
    LET inner == displayMessage(present, "Failed to fetch cheat codes from server", "msg-error")
        outer == displayMessage(present, "Failed to load cheat codes", "msg-error")
    IN  [thrown |-> outer.thrown, notes |-> inner.notes \o outer.notes]

\* fetchCheatCodes and loadCheatCodes when getCheatCodes rejects: the catch of
\* fetchCheatCodes notifies and returns []; if that notification throws, the
\* catch of loadCheatCodes notifies too, and if that one throws as well the
\* promise of loadCheatCodes rejects.
FetchRejected(present) ==
    LET inner == displayMessage(present, "Failed to fetch cheat codes from server", "msg-error")
        outer == displayMessage(present, "Failed to load cheat codes", "msg-error")
    IN  IF ~inner.thrown
        THEN [thrown |-> FALSE, notes |-> inner.notes]
        ELSE [thrown |-> outer.thrown, notes |-> inner.notes \o outer.notes]

\* NextStep with the two restores swapped: the state first, then the save.
NextStep_StateFirst(pos, p) ==
    CASE pos = "delay" /\ p.state -> "state"
      [] pos \in {"delay", "state", "stateFile"} /\ p.save -> "save"
      [] OTHER -> "fetch"

\* The step the game-started sequence awaits next, after finishing `pos`
\* (lines 338-347), for a session mounted with props p.
NextStep(pos, p) ==
    CASE pos = "delay" /\ p.save -> "save"
      [] pos \in {"delay", "save", "saveFile"} /\ p.state -> "state"
      [] OTHER -> "fetch"

(* --------------------- Bootstrap and mount: data ---------------------- *)

Digit(d) ==
    CASE d = 0 -> "0" [] d = 1 -> "1" [] d = 2 -> "2" [] d = 3 -> "3" [] d = 4 -> "4"
      [] d = 5 -> "5" [] d = 6 -> "6" [] d = 7 -> "7" [] d = 8 -> "8" [] OTHER -> "9"

RECURSIVE toString(_)
\* Number.prototype.toString(): the decimal digits of n.
toString(n) == IF n < 10 THEN Digit(n) ELSE toString(n \div 10) \o Digit(n % 10)

\* An optional prop (core: string | null, disc: number | null): null, or a value.
Null == [null |-> TRUE, v |-> 0, name |-> ""]
Num(n) == [null |-> FALSE, v |-> n, name |-> ""]
Str(x) == [null |-> FALSE, v |-> 0, name |-> x]

\* JavaScript truthiness of an optional number / of an optional string.
TruthyNum(x) == ~x.null /\ x.v # 0
TruthyStr(x) == ~x.null /\ x.name # ""

NoBios == [null |-> TRUE, id |-> 0, file_name |-> ""]

Cores == {"fceumm", "nestopia", "ppsspp"}

\* The cores that need threads, as areThreadsRequiredForEJSCore answers.
ThreadedCores == {"ppsspp"}

areThreadsRequiredForEJSCore(core) == core \in ThreadedCores

\* What getSupportedEJSCores can return for a platform: up to two cores,
\* the default first; nothing for a platform without a core.
SupportedLists ==
    {<<>>} \cup {<<c>> : c \in Cores}
           \cup {<<c, d>> : <<c, d>> \in {x \in Cores \X Cores : x[1] # x[2]}}

\* Characters of a raw title: a letter, a blank, and three characters of
\* INVALID_CHARS_REGEX (line 28), a line feed among them.
TitleChars == {"M", " ", "#", ":", "\n"}

\* line 28: the characters INVALID_CHARS_REGEX matches.
InvalidChars ==
    {"#", "<", "$", "+", "%", ">", "!", "`", "&", "*", "'", "|", "{", "}", "/",
     "\\", "?", "\"", "=", "@", ":", "^", "\r", "\n"}

\* The characters String.prototype.trim removes at both ends.
WhiteSpace == {" ", "\t", "\n", "\r"}

Titles == UNION {[1..n -> TitleChars] : n \in 0..MaxTitle}

RECURSIVE replaceInvalid(_)
\* line 118: title.replace(INVALID_CHARS_REGEX, ""), with the g flag: every
\* match is removed.
replaceInvalid(title) ==
    IF title = <<>> THEN <<>>
    ELSE IF Head(title) \in InvalidChars THEN replaceInvalid(Tail(title))
    ELSE <<Head(title)>> \o replaceInvalid(Tail(title))

RECURSIVE trimStart(_)
trimStart(t) ==
    IF t # <<>> /\ Head(t) \in WhiteSpace THEN trimStart(Tail(t)) ELSE t

RECURSIVE trimEnd(_)
trimEnd(t) ==
    IF t # <<>> /\ t[Len(t)] \in WhiteSpace THEN trimEnd(SubSeq(t, 1, Len(t) - 1)) ELSE t

\* line 119: String.prototype.trim
trim(t) == trimEnd(trimStart(t))

\* gameName with the replace of line 118 stopping at the first match (a
\* regular expression without the g flag).
gameName_FirstOnly(title) ==
    LET hits == {i \in 1..Len(title) : title[i] \in InvalidChars}
        k    == CHOOSE i \in hits : \A j \in hits : i <= j
    IN  IF hits = {} THEN trim(title)
        ELSE trim(SubSeq(title, 1, k - 1) \o SubSeq(title, k + 1, Len(title)))

\* lines 117-119: window.EJS_gameName
gameName(title) == trim(replaceInvalid(title))

\* resolveCore returning the requested core whenever one is given.
resolveCore_NoCheck(supported, core) ==
    IF ~core.null THEN core.name
    ELSE IF supported # <<>> THEN supported[1] ELSE "undefined"

\* lines 88-89: supportedCores.find((core) => core === props.core) ?? supportedCores[0]
resolveCore(supported, core) ==
    IF ~core.null /\ \E i \in 1..Len(supported) : supported[i] = core.name
    THEN core.name
    ELSE IF supported # <<>> THEN supported[1] ELSE "undefined"

\* lines 99-101: window.EJS_biosUrl
biosUrl(bios) ==
    IF bios.null THEN ""
    ELSE "/api/firmware/" \o toString(bios.id) \o "/content/" \o bios.file_name

\* lines 87-119: the configuration fields Bootstrap assigns, for options o
\* and game id. The control scheme and the download path come from helpers
\* of @/utils and are kept as what they were computed from.
Bootstrap(o, id) ==
    LET core == resolveCore(o.supported, o.core)
    IN  [core          |-> core,
         controlScheme |-> <<"controlScheme", o.platform>>,
         threads       |-> areThreadsRequiredForEJSCore(core),
         gameID        |-> id,
         gameUrl       |-> <<"downloadPath", id, IF TruthyNum(o.disc) THEN <<o.disc.v>> ELSE <<>>>>,
         biosUrl       |-> biosUrl(o.bios),
         gameName      |-> gameName(o.title)]

\* localStorage: a set of entries, at most one per key.
setItem(store, key, value) ==
    {e \in store : e.key # key} \cup {[key |-> key, value |-> value]}

removeItem(store, key) == {e \in store : e.key # key}

getItem(store, key) ==
    IF \E e \in store : e.key = key THEN (CHOOSE e \in store : e.key = key).value
                                    ELSE "null"

biosKey(o) == "player:" \o o.platform \o ":bios_id"
coreKey(o) == "player:" \o o.platform \o ":core"
discKey(id) == "player:" \o toString(id) \o ":disc"

\* lines 146-171: localStorage after onMounted has stored or removed the
\* three selections.
MountStorage(store, o, id) ==
    LET s1 == IF ~o.bios.null THEN setItem(store, biosKey(o), toString(o.bios.id))
                              ELSE removeItem(store, biosKey(o))
        s2 == IF TruthyStr(o.core) THEN setItem(s1, coreKey(o), o.core.name)
                                   ELSE removeItem(s1, coreKey(o))
    IN  IF TruthyNum(o.disc) THEN setItem(s2, discKey(id), toString(o.disc.v))
                             ELSE removeItem(s2, discKey(id))

\* The options of the unit tests: platform nes, core "nes", no firmware, no
\* disc.
DefaultOpts ==
    [platform |-> "nes", supported |-> <<"fceumm", "nestopia">>, core |-> Str("nes"),
     bios |-> NoBios, disc |-> Null, title |-> <<"S", "M", "B">>]

(* ------------------------------ state --------------------------------- *)

VARIABLES
    cur,                \* the component instance that last ran <script setup>
    life,               \* its lifecycle: "setup", "mounted", "unmounted"
    props,              \* per instance: whether props.save / props.state were supplied
    saveRef,            \* per instance: the id of the save saveRef.value holds, 0 for null
    romId,              \* per instance: romRef.value.id
    cheatUpdateTimeout, \* per instance: the timer handle, 0 for null
    registered,         \* instances whose saveSelected/stateSelected handlers are on the emitter
    EJS_cheats,         \* window.EJS_cheats
    emuPresent,         \* window.EJS_emulator exists
    tasks,              \* async functions suspended at an await
    timers,             \* pending setTimeout(..., 1000) callbacks of lines 356-360
    nextId,             \* next task id
    nEvents,            \* events counted against MaxEvents
    calls,              \* native calls made by the last step, in order
    notes,              \* notifications shown by the last step, in order
    ev,                 \* the last step: what ran, for which instance, with which input
    latestResp,         \* what the most recently started loadCheatCodes got from the backend
    observe,            \* whether the history variables latestResp and pendingAtUnmount are kept
    pendingAtUnmount,   \* instances unmounted while their timer was pending
    playing,            \* playingStore.playing
    fullScreen,         \* playingStore.fullScreen
    opts,               \* what Bootstrap and onMounted read: platform, supported cores, props.core/bios/disc, raw title
    config,             \* the window.EJS_* fields Bootstrap assigned
    localStorage,       \* window.localStorage
    fmtArg,             \* a cheat list handed to formatCheatCodesForEmulatorJS
    fmtResult,          \* what it returned for it
    navigated,          \* window.history.back() was called
    cheatTable,         \* the runtime's native cheat table, where it is followed
    quitListener,       \* the click listener of lines 381-382: "attached" or "none" ("unobserved" where save-and-quit is not followed)
    cheats,             \* Cheats.vue: the displayed list
    newCheat,           \* Cheats.vue: the entry form
    pending             \* Cheats.vue: romApi requests in flight

vars == <<cur, life, props, saveRef, romId, cheatUpdateTimeout, registered, EJS_cheats,
          emuPresent, tasks, timers, nextId, nEvents, calls, notes, ev,
          latestResp, observe, pendingAtUnmount, playing, fullScreen,
          opts, config, localStorage, fmtArg, fmtResult, navigated,
          quitListener, cheatTable, cheats, newCheat, pending>>

\* The controller's own variables but for the record of the last step, the
\* variables of Bootstrap and mount, and those the controller's handlers
\* never touch.
ctlVars  == <<cur, life, props, saveRef, romId, cheatUpdateTimeout, registered, EJS_cheats,
              emuPresent, tasks, timers, nextId, nEvents, latestResp, observe,
              pendingAtUnmount, playing, fullScreen>>
bootVars == <<opts, config, localStorage>>
sideVars == <<fmtArg, fmtResult, navigated, quitListener, cheatTable, cheats, newCheat, pending>>

\* `list` is the list a getCheatCodes response carried; `cancelled` is the
\* pending timer the step cancelled, 0 when it cancelled none.
Event(act, by, id, arg, list, cancelled) ==
    [act |-> act, by |-> by, id |-> id, arg |-> arg, list |-> list, cancelled |-> cancelled]

\* `rom` is the game the task's request names, as the request carries it.
Task(id, sess, kind, pc, rom, latest) ==
    [id |-> id, sess |-> sess, kind |-> kind, pc |-> pc, rom |-> rom, latest |-> latest]

Unmounted(s) == s < cur \/ (s = cur /\ life = "unmounted")

NoProps == [save |-> FALSE, state |-> FALSE]

\* The saves of the game, by id; the first is the one props.save names.
Saves == 1..2

\* lines 36-40: props.save as a save id, 0 for null.
PropSave(p) == IF p.save THEN 1 ELSE 0

\* saveRefAfterLoadSave with loadSave leaving the reference alone.
saveRefAfterLoadSave_Keep(old, save) == old

\* line 231: saveRef.value once loadSave(save) has started.
saveRefAfterLoadSave(old, save) == save

\* lines 39-44, 109, 191: the controller's own state once <script setup> has
\* run for the first instance, created with props p for game 123; nothing is
\* mounted. `obs` says whether the behaviour keeps the history variables.
InitPlayer(p, obs) ==
    /\ cur = 1
    /\ life = "setup"
    /\ props = [s \in Sessions |-> IF s = 1 THEN p ELSE NoProps]
    /\ saveRef = [s \in Sessions |-> IF s = 1 THEN PropSave(p) ELSE PropSave(NoProps)]
    /\ romId = [s \in Sessions |-> 123]
    /\ cheatUpdateTimeout = [s \in Sessions |-> 0]
    /\ registered = {}
    /\ EJS_cheats = <<>>
    /\ emuPresent = FALSE
    /\ tasks = {}
    /\ timers = {}
    /\ nextId = 1
    /\ nEvents = 0
    /\ calls = <<>>
    /\ notes = <<>>
    /\ ev = Event("setup", 1, 0, "", <<>>, 0)
    /\ latestResp = NoList
    /\ observe = obs
    /\ pendingAtUnmount = {}
    /\ playing = FALSE
    /\ fullScreen = FALSE

\* lines 87-119: Bootstrap has run with options o for game 123; localStorage
\* holds what earlier visits left.
InitBoot(o, store) ==
    /\ opts = o
    /\ config = Bootstrap(o, 123)
    /\ localStorage = store

\* Cheats.vue lines 28-32: the empty entry form.
EmptyForm == [name |-> "", code |-> "", description |-> ""]

\* No list has been formatted, nobody has navigated, and the cheat panel is
\* not shown.
InitSide ==
    /\ fmtArg = <<>>
    /\ fmtResult = <<>>
    /\ navigated = FALSE
    /\ quitListener = "unobserved"
    /\ cheatTable = NoTable
    /\ cheats = <<>>
    /\ newCheat = EmptyForm
    /\ pending = {}

\* lines 87-119: Bootstrap of the first instance, created with props p and
\* the options of the unit tests for game 123, has run; nothing is mounted.
InitWith(p, obs) ==
    /\ InitPlayer(p, obs)
    /\ InitBoot(DefaultOpts, {})
    /\ InitSide

(* ---------------------------- operations ------------------------------ *)

\* The JavaScript values window.EJS_cheats is written with or compared to:
\* an array, a string, or undefined.
JsArray(items) == [type |-> "array", items |-> items, text |-> ""]
JsString(text) == [type |-> "string", items |-> <<>>, text |-> text]
JsUndefined    == [type |-> "undefined", items |-> <<>>, text |-> ""]

\* lines 61, 109, 127, 131: window.EJS_cheats as a JavaScript value; every
\* assignment of the controller gives it an array.
EJS_cheatsValue(buf) == JsArray(buf)

\* fetchCheatCodesArg for the game the view was first opened with.
fetchCheatCodesArg_FirstGame(id) == toString(123)

\* line 414: the argument of getCheatCodes, romRef.value.id.toString()
fetchCheatCodesArg(id) == toString(id)

\* loadCheatCodes up to its await (lines 125-128, 412-414), run by task t:
\* the buffer is cleared and the request for the instance's current game id
\* is issued. `others` are the other suspended tasks.
BeginLoadCheatCodes(t, others) ==
    /\ EJS_cheats' = <<>>
    /\ tasks' = {[u EXCEPT !.latest = FALSE] : u \in others}
                  \cup {[t EXCEPT !.pc = "fetch", !.rom = fetchCheatCodesArg(romId[t.sess]), !.latest = observe]}
    /\ latestResp' = IF observe THEN [st |-> "pending", list |-> <<>>] ELSE latestResp

\* The game-started sequence of task t goes on to step np, having made the
\* native calls c: a pull is issued (lines 338, 339), or the save location is
\* forced and loadCheatCodes starts (lines 341-347).
Continue(t, np, c) ==
    IF np = "fetch"
    THEN /\ BeginLoadCheatCodes(t, tasks \ {t})
         /\ calls' = c \o <<Call("setSaveLocation", 0, FALSE, "browser", t.sess)>>
    ELSE /\ tasks' = (tasks \ {t}) \cup (IF np = "done" THEN {} ELSE {[t EXCEPT !.pc = np]})
         /\ calls' = c
         /\ UNCHANGED <<EJS_cheats, latestResp>>

\* lines 144-174: onMounted up to the await of loadCheatCodes.
onMounted ==
    /\ life = "setup"
    /\ life' = "mounted"
    /\ localStorage' = MountStorage(localStorage, opts, romId[cur])
    /\ BeginLoadCheatCodes(Task(nextId, cur, "mount", "fetch", "", TRUE), tasks)
    /\ nextId' = nextId + 1
    /\ calls' = <<>>
    /\ notes' = <<>>
    /\ ev' = Event("onMounted", cur, nextId, "", <<>>, 0)
    /\ UNCHANGED <<cur, props, saveRef, romId, cheatUpdateTimeout, registered, emuPresent,
                   timers, nEvents, observe, opts, config, sideVars, playing, fullScreen, pendingAtUnmount>>

\* WatchConfig with the game id and the download path assigned anew.
WatchConfig_Rebootstrap(cfg, newId) ==
    [cfg EXCEPT !.gameID = newId, !.gameUrl = <<"downloadPath", newId, cfg.gameUrl[3]>>]

\* lines 181-188: the window.EJS_* fields after the watcher has run; it
\* assigns none of them.
WatchConfig(cfg, newId) == cfg

\* lines 181-188: the game identifier of the mounted instance changes.
WatchRomId(newId) ==
    /\ life = "mounted"
    /\ nEvents < MaxEvents
    /\ newId # romId[cur]
    /\ romId' = [romId EXCEPT ![cur] = newId]
    /\ config' = WatchConfig(config, newId)
    /\ EJS_cheats' = <<>>
    /\ tasks' = {[u EXCEPT !.latest = FALSE] : u \in tasks}
                  \cup {Task(nextId, cur, "watch", "fetch", fetchCheatCodesArg(newId), observe)}
    /\ latestResp' = IF observe THEN [st |-> "pending", list |-> <<>>] ELSE latestResp
    /\ nextId' = nextId + 1
    /\ nEvents' = nEvents + 1
    /\ calls' = <<>>
    /\ notes' = <<>>
    /\ ev' = Event("watch", cur, nextId, "", <<>>, 0)
    /\ UNCHANGED <<cur, life, props, saveRef, cheatUpdateTimeout, registered, emuPresent,
                   timers, observe, opts, localStorage, sideVars, playing, fullScreen, pendingAtUnmount>>

\* The runtime's loader has created window.EJS_emulator.
RuntimeLoaded ==
    /\ ~emuPresent
    /\ life = "mounted"
    /\ emuPresent' = TRUE
    /\ calls' = <<>>
    /\ notes' = <<>>
    /\ ev' = Event("runtimeLoaded", 0, 0, "", <<>>, 0)
    /\ UNCHANGED <<cur, life, props, saveRef, romId, cheatUpdateTimeout, registered, EJS_cheats,
                   tasks, timers, nextId, nEvents, latestResp, observe, bootVars, sideVars, playing, fullScreen, pendingAtUnmount>>

\* lines 336-337 and 362-406: the runtime calls the game-started hook, which
\* is the one the latest instance assigned and which onBeforeUnmount leaves in
\* place. It starts the 10 ms timer and attaches the button listeners.
EJS_onGameStart ==
    /\ emuPresent
    /\ life # "setup"
    /\ nEvents < MaxEvents
    /\ tasks' = tasks \cup {Task(nextId, cur, "gs", "delay", "", FALSE)}
    /\ nextId' = nextId + 1
    /\ nEvents' = nEvents + 1
    /\ calls' = <<>>
    /\ notes' = <<>>
    /\ ev' = Event("gameStart", cur, nextId, "", <<>>, 0)
    /\ quitListener' = IF quitListener = "none" THEN "attached" ELSE quitListener
    /\ UNCHANGED <<cur, life, props, saveRef, romId, cheatUpdateTimeout, registered, EJS_cheats,
                   emuPresent, timers, latestResp, observe, bootVars, playing, fullScreen, pendingAtUnmount,
                   fmtArg, fmtResult, navigated, cheatTable, cheats, newCheat, pending>>

\* line 337: the 10 ms timer of the game-started hook fires.
GameStartDelay(t) ==
    /\ t \in tasks /\ t.kind = "gs" /\ t.pc = "delay"
    /\ Continue(t, NextStep("delay", props[t.sess]), <<>>)
    /\ saveRef' = IF NextStep("delay", props[t.sess]) = "save"
                  THEN [saveRef EXCEPT ![t.sess] = saveRefAfterLoadSave(@, PropSave(props[t.sess]))]
                  ELSE saveRef
    /\ notes' = <<>>
    /\ ev' = Event("delay", t.sess, t.id, "", <<>>, 0)
    /\ UNCHANGED <<cur, life, props, romId, cheatUpdateTimeout, registered, emuPresent,
                   timers, nextId, nEvents, observe, bootVars, sideVars, playing, fullScreen, pendingAtUnmount>>

\* What follows the loadSave/loadState that task t awaits: the next step of
\* the game-started sequence (lines 338-347), or nothing when the emitter
\* called loadSave (line 176).
AfterLoad(t) == IF t.kind = "sel" THEN "done" ELSE NextStep(t.pc, props[t.sess])

LoadOp(pc) == IF pc \in {"save", "saveFile"} THEN "loadSave" ELSE "loadState"

\* lines 233-243 and 284-294: the backend settles the pull a game-started
\* sequence awaits. A rejection leaves loadSave/loadState and the async timer
\* callback that awaits it (nothing catches it); no data leads to selectFile.
PullResponse(t, r) ==
    /\ t \in tasks /\ t.pc \in {"save", "state"}
    /\ IF r = "reject"
       THEN /\ tasks' = tasks \ {t}
            /\ calls' = <<>>
            /\ notes' = <<>>
            /\ UNCHANGED <<EJS_cheats, latestResp>>
       ELSE IF r = "nothing"
       THEN /\ tasks' = (tasks \ {t}) \cup {[t EXCEPT !.pc = IF t.pc = "save" THEN "saveFile" ELSE "stateFile"]}
            /\ calls' = <<>>
            /\ notes' = <<>>
            /\ UNCHANGED <<EJS_cheats, latestResp>>
       ELSE /\ Continue(t, AfterLoad(t), <<Call(LoadOp(t.pc), 0, FALSE, r, t.sess)>>)
            /\ notes' = displayMessage(emuPresent,
                                       IF t.pc = "save" THEN "Save loaded from server"
                                                        ELSE "State loaded from server",
                                       "msg-info").notes
    /\ ev' = Event("pull", t.sess, t.id, r, <<>>, 0)
    /\ UNCHANGED <<cur, life, props, saveRef, romId, cheatUpdateTimeout, registered, emuPresent,
                   timers, nextId, nEvents, observe, bootVars, sideVars, playing, fullScreen, pendingAtUnmount>>

\* lines 245-246 and 296-297: the user picked a local file.
FileSelected(t) ==
    /\ t \in tasks /\ t.pc \in {"saveFile", "stateFile"}
    /\ Continue(t, AfterLoad(t), <<Call(LoadOp(t.pc), 0, FALSE, "file", t.sess)>>)
    /\ notes' = <<>>
    /\ ev' = Event("file", t.sess, t.id, "", <<>>, 0)
    /\ UNCHANGED <<cur, life, props, saveRef, romId, cheatUpdateTimeout, registered, emuPresent,
                   timers, nextId, nEvents, observe, bootVars, sideVars, playing, fullScreen, pendingAtUnmount>>

\* clearTimeout(handle): the pending timers that remain.
clearTimeout(handle) == {tm \in timers : tm.id # handle}

\* The pending timer clearTimeout(handle) cancels, 0 when there is none.
Cancels(handle) == IF \E tm \in timers : tm.id = handle THEN handle ELSE 0

\* ScheduleCheatUpdate without the clearTimeout of lines 350-352.
ScheduleCheatUpdate_NoCancel(s, id) ==
    timers \cup {[id |-> id, sess |-> s]}

\* lines 349-360: the pending timers after the task `id` of instance s has cancelled
\* the timer the handle names and scheduled its own.
ScheduleCheatUpdate(s, id) ==
    clearTimeout(cheatUpdateTimeout[s]) \cup {[id |-> id, sess |-> s]}

\* getCheatCodes settles for task t, suspended in loadCheatCodes (line 128):
\* the rest of loadCheatCodes (129-141) and, unless it threw, of its caller:
\* onMounted (176-177), the watcher (nothing) or the game-started sequence
\* (349-360).
CheatResponse(t, resp) ==
    LET rej    == FetchRejected(emuPresent)
        thrown == resp.st = "error" /\ rej.thrown
    IN  /\ t \in tasks /\ t.pc = "fetch"
        /\ EJS_cheats' = IF resp.st = "list" THEN BufferAfterFetch(EJS_cheats, resp.list)
                                              ELSE EJS_cheats
        /\ notes' = IF resp.st = "error" THEN rej.notes ELSE <<>>
        /\ calls' = <<>>
        /\ tasks' = tasks \ {t}
        /\ latestResp' = IF t.latest THEN resp ELSE latestResp
        /\ registered' = IF t.kind = "mount" /\ ~thrown THEN registered \cup {t.sess}
                                                          ELSE registered
        /\ IF t.kind = "gs" /\ ~thrown
           THEN /\ timers' = ScheduleCheatUpdate(t.sess, t.id)
                /\ cheatUpdateTimeout' = [cheatUpdateTimeout EXCEPT ![t.sess] = t.id]
           ELSE UNCHANGED <<timers, cheatUpdateTimeout>>
        /\ ev' = Event("cheats", t.sess, t.id, IF thrown THEN "thrown" ELSE resp.st, resp.list,
                       IF t.kind = "gs" /\ ~thrown THEN Cancels(cheatUpdateTimeout[t.sess]) ELSE 0)
        /\ UNCHANGED <<cur, life, props, saveRef, romId, emuPresent, nextId, nEvents,
                       observe, bootVars, sideVars, playing, fullScreen, pendingAtUnmount>>

\* HandleAfterFire without the assignment of line 359.
HandleAfterFire_Keep(handle) == handle

\* line 359: the handle once the timer's callback has run, 0 for null.
\* updateEmulatorCheats (line 358) catches what it raises, so the assignment
\* is always reached.
HandleAfterFire(handle) == 0

\* lines 356-360: a pending timer fires; the runtime exposes `surface`.
TimerFire(tm, surface) ==
    LET r == updateEmulatorCheats(surface, EJS_cheats, tm.sess)
    IN  /\ tm \in timers
        /\ timers' = timers \ {tm}
        /\ calls' = r.calls
        /\ notes' = r.notes
        /\ cheatUpdateTimeout' = [cheatUpdateTimeout EXCEPT ![tm.sess] = HandleAfterFire(@)]
        /\ ev' = Event("timer", tm.sess, tm.id, surface, <<>>, 0)
        /\ cheatTable' = IF cheatTable.on
                         THEN [cheatTable EXCEPT !.codes = TableAfter(@, r.calls),
                                                 !.written = @ \/ surface = "ready"]
                         ELSE cheatTable
        /\ UNCHANGED <<cur, life, props, saveRef, romId, registered, EJS_cheats, emuPresent,
                       tasks, nextId, nEvents, latestResp, observe, bootVars, playing, fullScreen, pendingAtUnmount,
                       fmtArg, fmtResult, navigated, quitListener, cheats, newCheat, pending>>

\* What onBeforeUnmount reads and writes, for the current instance; `thrown`
\* says whether the last run of the handler raised an exception.
TeardownView ==
    [inst |-> cur, handle |-> cheatUpdateTimeout[cur], timers |-> timers,
     registered |-> registered, playing |-> playing, fullScreen |-> fullScreen,
     thrown |-> FALSE]

\* Teardown without the reset of the handle (line 197).
Teardown_KeepHandle(c) ==
    [c EXCEPT !.timers = IF c.handle # 0 THEN {tm \in c.timers : tm.id # c.handle}
                                          ELSE c.timers,
              !.registered = c.registered \ {c.inst},
              !.playing = FALSE,
              !.fullScreen = FALSE,
              !.thrown = FALSE]

\* lines 194-204: the body of the unmount handler, as a function of what it
\* reads. Nothing in it can throw: clearTimeout and emitter.off accept
\* handles and handlers that are not pending or registered.
Teardown(c) ==
    [c EXCEPT !.handle = 0,
              !.timers = IF c.handle # 0 THEN {tm \in c.timers : tm.id # c.handle}
                                          ELSE c.timers,
              !.registered = c.registered \ {c.inst},
              !.playing = FALSE,
              !.fullScreen = FALSE,
              !.thrown = FALSE]

\* lines 193-205
onBeforeUnmount ==
    LET r == Teardown(TeardownView)
    IN  /\ life = "mounted"
        /\ life' = "unmounted"
        /\ timers' = r.timers
        /\ cheatUpdateTimeout' = [cheatUpdateTimeout EXCEPT ![cur] = r.handle]
        /\ registered' = r.registered
        /\ playing' = r.playing
        /\ fullScreen' = r.fullScreen
        /\ pendingAtUnmount' = IF observe /\ \E tm \in timers : tm.sess = cur
                               THEN pendingAtUnmount \cup {cur} ELSE pendingAtUnmount
        /\ calls' = <<>>
        /\ notes' = <<>>
        /\ ev' = Event("unmount", cur, 0, IF playing THEN "playing" ELSE "", <<>>,
                       Cancels(cheatUpdateTimeout[cur]))
        /\ UNCHANGED <<cur, props, saveRef, romId, EJS_cheats, emuPresent, tasks, nextId, nEvents,
                       latestResp, observe, bootVars, sideVars>>

\* The hosting view starts play: it sets the playing flag and, when the user
\* chose so, the full-screen flag.
onPlay(fs) ==
    /\ life = "mounted"
    /\ ~playing
    /\ playing' = TRUE
    /\ fullScreen' = fs
    /\ calls' = <<>>
    /\ notes' = <<>>
    /\ ev' = Event("play", cur, 0, "", <<>>, 0)
    /\ UNCHANGED <<cur, life, props, saveRef, romId, cheatUpdateTimeout, registered, EJS_cheats,
                   emuPresent, tasks, timers, nextId, nEvents, latestResp, observe, bootVars, sideVars,
                   pendingAtUnmount>>

\* What saveSave / saveState resolve with: the stored record, or nothing when
\* the upload failed.
PushOutcomes == {"record", "none"}

\* PushNotes with the else branches (lines 273-279, 327-333) left out.
PushNotes_SilentFailure(kind, outcome, present) ==
    IF outcome # "record"
    THEN <<>>
    ELSE IF kind = "pushSave"
         THEN displayMessage(present, "Save synced with server", "msg-info").notes
         ELSE displayMessage(present, "State synced with server", "msg-info").notes

\* lines 268-279 and 322-333: the notification of a push that settled.
PushNotes(kind, outcome, present) ==
    IF kind = "pushSave"
    THEN IF outcome = "record"
         THEN displayMessage(present, "Save synced with server", "msg-info").notes
         ELSE displayMessage(present, "Error syncing save with server", "msg-error").notes
    ELSE IF outcome = "record"
         THEN displayMessage(present, "State synced with server", "msg-info").notes
         ELSE displayMessage(present, "Error syncing state with server", "msg-error").notes

\* lines 266 and 315-320: what a push handler calls once the upload has
\* settled, before it notifies: the state handler writes the blob to the
\* runtime's browser storage under getBaseFileName() + ".state"; both refresh
\* the game in the store.
PushCalls(kind, by) ==
    (IF kind = "pushState"
     THEN <<Call("storage.states.put", 0, FALSE, "BaseFileName.state", by)>>
     ELSE <<>>)
      \o <<Call("romsStore.update", 0, FALSE, "", by)>>

\* lines 258-263 and 309-313: the upload a push hook awaits; a save upload
\* carries saveRef.value as `save`.
PushTask(id, sess, kind, rom, save) ==
    IF kind = "pushSave"
    THEN Task(id, sess, kind, "upload", rom, FALSE) @@ [save |-> save]
    ELSE Task(id, sess, kind, "upload", rom, FALSE)

\* lines 176 and 229-233: the emitter delivers a save-selected event to the
\* loadSave of instance s, which is registered: the reference is switched
\* and the pull of the save is awaited.
SaveSelected(s, sv) ==
    /\ s \in registered
    /\ nEvents < MaxEvents
    /\ nEvents' = nEvents + 1
    /\ saveRef' = [saveRef EXCEPT ![s] = saveRefAfterLoadSave(@, sv)]
    /\ tasks' = tasks \cup {Task(nextId, s, "sel", "save", "", FALSE)}
    /\ nextId' = nextId + 1
    /\ calls' = <<>>
    /\ notes' = <<>>
    /\ ev' = Event("saveSelected", s, nextId, "", <<>>, 0) @@ [save |-> sv]
    /\ UNCHANGED <<cur, life, props, romId, cheatUpdateTimeout, registered, EJS_cheats,
                   emuPresent, timers, latestResp, observe, bootVars, sideVars, pendingAtUnmount,
                   playing, fullScreen>>

\* lines 255-264 and 306-314: the runtime calls a push hook (the one the
\* latest instance assigned), which starts the upload and awaits it.
BeginPush(kind, act) ==
    /\ emuPresent
    /\ life # "setup"
    /\ nEvents < MaxEvents
    /\ tasks' = tasks \cup {PushTask(nextId, cur, kind, toString(romId[cur]), saveRef[cur])}
    /\ nextId' = nextId + 1
    /\ nEvents' = nEvents + 1
    /\ calls' = <<>>
    /\ notes' = <<>>
    /\ ev' = Event(act, cur, nextId, "", <<>>, 0)
    /\ UNCHANGED <<cur, life, props, saveRef, romId, cheatUpdateTimeout, registered, EJS_cheats,
                   emuPresent, timers, latestResp, observe, bootVars, sideVars, pendingAtUnmount,
                   playing, fullScreen>>

EJS_onSaveSave == BeginPush("pushSave", "saveRequested")

EJS_onSaveState == BeginPush("pushState", "stateRequested")

\* lines 266-279 and 315-333: the upload of push task t settles with outcome o.
PushResponse(t, o) ==
    /\ t \in tasks /\ t.pc = "upload"
    /\ tasks' = tasks \ {t}
    /\ calls' = PushCalls(t.kind, t.sess)
    /\ notes' = PushNotes(t.kind, o, emuPresent)
    /\ ev' = Event(t.kind, t.sess, t.id, o, <<>>, 0)
    /\ UNCHANGED <<cur, life, props, saveRef, romId, cheatUpdateTimeout, registered, EJS_cheats,
                   emuPresent, timers, nextId, nEvents, latestResp, observe, bootVars, sideVars,
                   pendingAtUnmount, playing, fullScreen>>

\* saveAndQuitStep going back as soon as the save upload has been started.
saveAndQuitStep_NoAwait(pc) ==
    CASE pc = "screenshot" -> [pc |-> "quitState", op |-> "saveState", back |-> FALSE]
      [] pc = "quitState"  -> [pc |-> "quitSave", op |-> "saveSave", back |-> TRUE]
      [] OTHER             -> [pc |-> "done", op |-> "romsStore.update", back |-> FALSE]

\* lines 387-405: what the click handler does when the await it is suspended
\* at settles: the await it goes on to, the call it makes first, and whether
\* it then calls window.history.back().
saveAndQuitStep(pc) ==
    CASE pc = "screenshot" -> [pc |-> "quitState", op |-> "saveState", back |-> FALSE]
      [] pc = "quitState"  -> [pc |-> "quitSave", op |-> "saveSave", back |-> FALSE]
      [] OTHER             -> [pc |-> "done", op |-> "romsStore.update", back |-> TRUE]

\* lines 382-387: the save-and-quit button is clicked, while the view is
\* shown and nobody has gone back yet. Without a runtime the handler goes
\* back at once; otherwise it reads the state and the save file and awaits
\* the screenshot.
SaveAndQuitClick ==
    /\ quitListener = "attached"
    /\ life = "mounted"
    /\ ~navigated
    /\ Cardinality({t \in tasks : t.kind = "quit"}) < MaxClicks
    /\ IF ~emuPresent
       THEN /\ navigated' = TRUE
            /\ calls' = <<Call("history.back", 0, FALSE, "", cur)>>
            /\ UNCHANGED <<tasks, nextId>>
       ELSE /\ tasks' = tasks \cup {Task(nextId, cur, "quit", "screenshot", toString(romId[cur]), FALSE)}
            /\ nextId' = nextId + 1
            /\ calls' = <<Call("getState", 0, FALSE, "", cur), Call("getSaveFile", 0, FALSE, "", cur),
                          Call("screenshot", 0, FALSE, "", cur)>>
            /\ UNCHANGED navigated
    /\ notes' = <<>>
    /\ ev' = Event("quitClick", cur, nextId, "", <<>>, 0)
    /\ UNCHANGED <<cur, life, props, saveRef, romId, cheatUpdateTimeout, registered, EJS_cheats,
                   emuPresent, timers, nEvents, latestResp, observe, bootVars, pendingAtUnmount,
                   playing, fullScreen, fmtArg, fmtResult, quitListener, cheatTable, cheats, newCheat, pending>>

\* What the three awaits of the click handler settle with.
QuitOutcomes(pc) == IF pc = "screenshot" THEN {"file"} ELSE PushOutcomes

\* lines 387-405: the await the click handler t is suspended at settles with
\* o: the screenshot (then saveState is called), the state upload (then
\* saveSave is called), or the save upload (then the store is refreshed and
\* the handler goes back).
QuitSettled(t, o) ==
    /\ t \in tasks /\ t.kind = "quit"
    /\ o \in QuitOutcomes(t.pc)
    /\ LET s == saveAndQuitStep(t.pc)
       IN  /\ tasks' = (tasks \ {t}) \cup (IF s.pc = "done" THEN {} ELSE {[t EXCEPT !.pc = s.pc]})
           /\ calls' = <<Call(s.op, IF s.op = "saveSave" THEN saveRef[t.sess] ELSE 0, FALSE, t.rom, t.sess)>>
                          \o (IF s.back THEN <<Call("history.back", 0, FALSE, "", t.sess)>> ELSE <<>>)
           /\ navigated' = (navigated \/ s.back)
    /\ notes' = <<>>
    /\ ev' = Event(t.pc, t.sess, t.id, o, <<>>, 0)
    /\ UNCHANGED <<cur, life, props, saveRef, romId, cheatUpdateTimeout, registered, EJS_cheats,
                   emuPresent, timers, nextId, nEvents, latestResp, observe, bootVars, pendingAtUnmount,
                   playing, fullScreen, fmtArg, fmtResult, quitListener, cheatTable, cheats, newCheat, pending>>

\* BootstrapCheats without the assignment of line 109.
BootstrapCheats_Keep(old) == old

\* line 109: the buffer Bootstrap leaves, whatever it found there.
BootstrapCheats(old) == <<>>

\* lines 87-119: after the previous instance was unmounted, the view is
\* entered for another game and <script setup> runs for a new instance.
Setup(p, r) ==
    /\ life = "unmounted"
    /\ nEvents < MaxEvents
    /\ cur' = cur + 1
    /\ life' = "setup"
    /\ props' = [props EXCEPT ![cur + 1] = p]
    /\ saveRef' = [saveRef EXCEPT ![cur + 1] = PropSave(p)]
    /\ romId' = [romId EXCEPT ![cur + 1] = r]
    /\ config' = Bootstrap(opts, r)
    /\ EJS_cheats' = BootstrapCheats(EJS_cheats)
    /\ latestResp' = NoList
    /\ nEvents' = nEvents + 1
    /\ calls' = <<>>
    /\ notes' = <<>>
    /\ ev' = Event("setup", cur + 1, 0, IF EJS_cheats # <<>> THEN "stale" ELSE "", <<>>, 0)
    /\ UNCHANGED <<cheatUpdateTimeout, registered, emuPresent, tasks, timers, nextId,
                   observe, opts, localStorage, sideVars, playing, fullScreen, pendingAtUnmount>>

CheatResponses == {[st |-> "list", list |-> l] : l \in CheatLists}
                    \cup {[st |-> "error", list |-> <<>>]}

\* Sessions mounted without an initial save or state: the lifecycle and the
\* cheat pipeline, over successive instances of the view.
Init == InitWith(NoProps, TRUE)

Next ==
    \/ onMounted
    \/ \E r \in RomIds : WatchRomId(r)
    \/ RuntimeLoaded
    \/ EJS_onGameStart
    \/ \E t \in tasks : GameStartDelay(t)
    \/ \E t \in tasks, resp \in CheatResponses : CheatResponse(t, resp)
    \/ \E tm \in timers, sf \in Surfaces : TimerFire(tm, sf)
    \/ onBeforeUnmount
    \/ \E r \in RomIds \ {romId[cur]} : Setup(NoProps, r)

Spec == Init /\ [][Next]_vars

\* One instance of the view, mounted with any combination of initial save and
\* initial state: the game-started sequence with its restores.
InitRestore == \E p \in PropsSet : InitWith(p, FALSE)

NextRestore ==
    \/ onMounted
    \/ RuntimeLoaded
    \/ EJS_onGameStart
    \/ \E t \in tasks : GameStartDelay(t)
    \/ \E t \in tasks, r \in PullResults : PullResponse(t, r)
    \/ \E t \in tasks : FileSelected(t)
    \/ \E t \in tasks, resp \in CheatResponses : CheatResponse(t, resp)
    \/ \E tm \in timers, sf \in Surfaces : TimerFire(tm, sf)
    \/ onBeforeUnmount

SpecRestore == InitRestore /\ [][NextRestore]_vars

BothProps == [save |-> TRUE, state |-> TRUE]

\* One instance of the view, mounted with an initial save and an initial
\* state: the restores of the game-started sequence together with the pushes
\* the runtime asks for.
InitPush == InitWith(BothProps, FALSE)

NextPush ==
    \/ onMounted
    \/ RuntimeLoaded
    \/ EJS_onGameStart
    \/ \E t \in tasks : GameStartDelay(t)
    \/ \E t \in tasks, r \in PullResults : PullResponse(t, r)
    \/ \E t \in tasks : FileSelected(t)
    \/ \E t \in tasks, resp \in CheatResponses : CheatResponse(t, resp)
    \/ \E tm \in timers, sf \in Surfaces : TimerFire(tm, sf)
    \/ EJS_onSaveSave
    \/ EJS_onSaveState
    \/ \E t \in tasks, o \in PushOutcomes : PushResponse(t, o)
    \/ onBeforeUnmount

SpecPush == InitPush /\ [][NextPush]_vars

\* SpecRestore with what the scheduling gives: a timer that stays pending
\* fires, and a request or a file selection that stays awaited is answered.
SpecRestoreFair ==
    /\ SpecRestore
    /\ WF_vars(\E t \in tasks : GameStartDelay(t))
    /\ WF_vars(\E t \in tasks, r \in PullResults : PullResponse(t, r))
    /\ WF_vars(\E t \in tasks : FileSelected(t))
    /\ WF_vars(\E t \in tasks, resp \in CheatResponses : CheatResponse(t, resp))
    /\ WF_vars(\E tm \in timers, sf \in Surfaces : TimerFire(tm, sf))

\* One instance of the view, mounted with an initial save: the restore of
\* the game-started sequence, save-selected events and the save pushes the
\* runtime asks for.
SaveProps == [save |-> TRUE, state |-> FALSE]

InitSave == InitWith(SaveProps, FALSE)

NextSave ==
    \/ onMounted
    \/ RuntimeLoaded
    \/ EJS_onGameStart
    \/ \E t \in tasks : GameStartDelay(t)
    \/ \E t \in tasks, r \in PullResults : PullResponse(t, r)
    \/ \E t \in tasks : FileSelected(t)
    \/ \E t \in tasks, resp \in CheatResponses : CheatResponse(t, resp)
    \/ \E s \in Sessions, sv \in Saves : SaveSelected(s, sv)
    \/ EJS_onSaveSave
    \/ \E t \in tasks, o \in PushOutcomes : PushResponse(t, o)
    \/ onBeforeUnmount

SpecSave == InitSave /\ [][NextSave]_vars

\* One instance of the view, mounted without an initial save or state, whose
\* runtime's cheat table is followed: mount, game-identifier changes, game
\* starts, the cheat pipeline, unmount.
InitTable ==
    /\ InitPlayer(NoProps, FALSE)
    /\ InitBoot(DefaultOpts, {})
    /\ fmtArg = <<>> /\ fmtResult = <<>>
    /\ navigated = FALSE
    /\ quitListener = "unobserved"
    /\ cheatTable = EmptyTable
    /\ cheats = <<>> /\ newCheat = EmptyForm /\ pending = {}

NextTable ==
    \/ onMounted
    \/ \E r \in RomIds : WatchRomId(r)
    \/ RuntimeLoaded
    \/ EJS_onGameStart
    \/ \E t \in tasks : GameStartDelay(t)
    \/ \E t \in tasks, resp \in CheatResponses : CheatResponse(t, resp)
    \/ \E tm \in timers, sf \in Surfaces : TimerFire(tm, sf)
    \/ onBeforeUnmount

SpecTable == InitTable /\ [][NextTable]_vars

\* One instance of the view, mounted without an initial save or state, whose
\* save-and-quit button is followed: game start, clicks, the runtime's own
\* push requests, unmount.
InitQuit ==
    /\ InitPlayer(NoProps, FALSE)
    /\ InitBoot(DefaultOpts, {})
    /\ fmtArg = <<>> /\ fmtResult = <<>>
    /\ navigated = FALSE
    /\ quitListener = "none"
    /\ cheatTable = NoTable
    /\ cheats = <<>> /\ newCheat = EmptyForm /\ pending = {}

NextQuit ==
    \/ onMounted
    \/ RuntimeLoaded
    \/ EJS_onGameStart
    \/ \E t \in tasks : GameStartDelay(t)
    \/ SaveAndQuitClick
    \/ \E t \in tasks, o \in PushOutcomes \cup {"file"} : QuitSettled(t, o)
    \/ EJS_onSaveState
    \/ \E t \in tasks, o \in PushOutcomes : PushResponse(t, o)
    \/ onBeforeUnmount

SpecQuit == InitQuit /\ [][NextQuit]_vars

\* One instance of the view, mounted without an initial save or state, with
\* the flags of the playing store: mount, play, the cheat pipeline, unmount.
InitTeardown == InitWith(NoProps, FALSE)

NextTeardown ==
    \/ onMounted
    \/ \E fs \in BOOLEAN : onPlay(fs)
    \/ RuntimeLoaded
    \/ EJS_onGameStart
    \/ \E t \in tasks : GameStartDelay(t)
    \/ \E t \in tasks, resp \in CheatResponses : CheatResponse(t, resp)
    \/ \E tm \in timers, sf \in Surfaces : TimerFire(tm, sf)
    \/ onBeforeUnmount

SpecTeardown == InitTeardown /\ [][NextTeardown]_vars

Bios7 == [null |-> FALSE, id |-> 7, file_name |-> "bios.bin"]

\* The options of the unit tests with firmware, disc and core supplied or
\* not.
OptsSupplied ==
    {[DefaultOpts EXCEPT !.bios = b, !.disc = d, !.core = c] :
        b \in {NoBios, Bios7}, d \in {Null, Num(0), Num(1)},
        c \in {Null, Str("fceumm")}}

\* The options Bootstrap and onMounted are run with: those of the unit tests
\* with the core request and the supported cores varied, with firmware, disc
\* and core supplied or not, and with the raw title varied.
OptsSet ==
    {[DefaultOpts EXCEPT !.supported = l, !.core = c] :
        l \in SupportedLists, c \in {Null} \cup {Str(x) : x \in Cores}}
      \cup OptsSupplied
      \cup {[DefaultOpts EXCEPT !.title = t] : t \in Titles}

\* What an earlier visit of game 123 on the same platform left in localStorage.
StaleStore(o) ==
    {[key |-> biosKey(o), value |-> "9"], [key |-> coreKey(o), value |-> "nestopia"],
     [key |-> discKey(123), value |-> "9"]}

\* Bootstrap and mount over all options: successive instances of the view,
\* their mounts, game-identifier changes and unmounts; no backend response.
InitBootstrap ==
    \E o \in OptsSet : \E st \in {{}, StaleStore(o)} :
        /\ InitPlayer(NoProps, FALSE)
        /\ InitBoot(o, st)
        /\ InitSide

NextBootstrap ==
    \/ onMounted
    \/ \E r \in RomIds : WatchRomId(r)
    \/ onBeforeUnmount
    \/ \E r \in RomIds \ {romId[cur]} : Setup(NoProps, r)

SpecBootstrap == InitBootstrap /\ [][NextBootstrap]_vars

\* One instance of the view, created with firmware, disc and core supplied
\* or not: its mount, game-identifier changes, the cheat responses, unmount.
InitWatch ==
    \E o \in OptsSupplied :
        /\ InitPlayer(NoProps, FALSE)
        /\ InitBoot(o, {})
        /\ InitSide

NextWatch ==
    \/ onMounted
    \/ \E r \in RomIds : WatchRomId(r)
    \/ \E t \in tasks, resp \in CheatResponses : CheatResponse(t, resp)
    \/ onBeforeUnmount

SpecWatch == InitWatch /\ [][NextWatch]_vars

\* The lists formatCheatCodesForEmulatorJS is given: any entries in any
\* order, repeated or not.
FormatInputs ==
    UNION {[1..n -> {CheatEntry(i) : i \in 1..(MaxCheats + 1)}] : n \in 0..(MaxCheats + 2)}

\* lines 445-456: formatCheatCodesForEmulatorJS is called with fmtArg; map
\* builds a new array and leaves its argument as it was.
Format ==
    /\ ev.act # "format"
    /\ fmtResult' = formatCheatCodesForEmulatorJS(fmtArg)
    /\ calls' = <<>>
    /\ notes' = <<>>
    /\ ev' = Event("format", 0, 0, "", <<>>, 0)
    /\ UNCHANGED <<ctlVars, bootVars, fmtArg, navigated, quitListener, cheatTable, cheats, newCheat, pending>>

\* The Cheat Source Adapter alone, over all lists.
InitFormat ==
    /\ InitPlayer(NoProps, FALSE)
    /\ InitBoot(DefaultOpts, {})
    /\ fmtArg \in FormatInputs
    /\ fmtResult = <<>>
    /\ navigated = FALSE
    /\ quitListener = "unobserved"
    /\ cheatTable = NoTable
    /\ cheats = <<>>
    /\ newCheat = EmptyForm
    /\ pending = {}

NextFormat == Format

SpecFormat == InitFormat /\ [][NextFormat]_vars

(* --------------------------- the cheat panel --------------------------- *)

\* The ids the backend gives to cheat entries.
PanelIds == 1..(MaxCheats + 1)

\* lines 289-307 of Cheats.vue: what the entry form can hold.
Forms ==
    {[name |-> n, code |-> c, description |-> ""] :
        n \in {"", "Infinite Lives (Updated)"}, c \in {"", "ABCD-1234"}}

\* What addRomCheat resolves with: the created entry, or nothing.
AddResults == {"entry", "none"}

\* What deleteRomCheat resolves with.
DeleteResults == {TRUE, FALSE}

IdsOf(list) == {list[i].id : i \in 1..Len(list)}

\* deleteFilter removing the row at position cheatId.
deleteFilter_ByPosition(list, cheatId) ==
    [i \in 1..(Len(list) - (IF cheatId \in 1..Len(list) THEN 1 ELSE 0)) |->
        IF i < cheatId THEN list[i] ELSE list[i + 1]]

\* Cheats.vue line 88: cheats.value.filter((c) => c.id !== cheatId)
deleteFilter(list, cheatId) ==
    LET Other(c) == c.id # cheatId IN SelectSeq(list, Other)

\* The record of a step of the panel: the request it concerns, the cheat id
\* it names, and the rows it removed.
PanelEvent(act, n, arg, cheatId, removed) ==
    [act |-> act, by |-> 0, id |-> n, arg |-> arg, list |-> removed, cancelled |-> 0,
     cheatId |-> cheatId]

Request(n, kind, cheatId, data) == [n |-> n, kind |-> kind, cheatId |-> cheatId, data |-> data]

FreeRequests == {n \in 1..MaxRequests : \A r \in pending : r.n # n}

\* Cheats.vue lines 289-307: the user edits the entry form (v-model).
TypeCheat(f) ==
    /\ f # newCheat
    /\ newCheat' = f
    /\ calls' = <<>>
    /\ notes' = <<>>
    /\ ev' = PanelEvent("type", 0, "", 0, <<>>)
    /\ UNCHANGED <<ctlVars, bootVars, fmtArg, fmtResult, navigated, quitListener, cheatTable, cheats, pending>>

\* addCheatSends testing the name alone.
addCheatSends_NameOnly(form) == form.name # ""

\* Cheats.vue line 35: whether addCheat goes on to send the form.
addCheatSends(form) == ~(form.name = "" \/ form.code = "")

\* Cheats.vue lines 34-40: addCheat up to its await. With an empty name or
\* code it returns at once; otherwise it sends a copy of the form.
addCheat ==
    /\ FreeRequests # {}
    /\ LET n == CHOOSE k \in FreeRequests : \A j \in FreeRequests : k <= j
       IN  IF ~addCheatSends(newCheat)
           THEN /\ calls' = <<>>
                /\ ev' = PanelEvent("addCheat", 0, "empty", 0, <<>>)
                /\ UNCHANGED pending
           ELSE /\ pending' = pending \cup {Request(n, "add", 0, newCheat)}
                /\ calls' = <<Call("addRomCheat", 0, FALSE, newCheat.code, 0)>>
                /\ ev' = PanelEvent("addCheat", n, "sent", 0, <<>>)
    /\ notes' = <<>>
    /\ UNCHANGED <<ctlVars, bootVars, fmtArg, fmtResult, navigated, quitListener, cheatTable, cheats, newCheat>>

\* Cheats.vue lines 42-51: addRomCheat settles for request r. A result with
\* an id (the one after the greatest id shown) is pushed onto the list and
\* the form is reset.
AddResponse(r, result, id) ==
    /\ r \in pending /\ r.kind = "add"
    /\ id \in PanelIds /\ \A k \in IdsOf(cheats) \cup {0} : k < id
    /\ \E k \in IdsOf(cheats) \cup {0} : id = k + 1
    /\ pending' = pending \ {r}
    /\ IF result = "entry"
       THEN /\ cheats' = Append(cheats, [id |-> id, name |-> r.data.name, code |-> r.data.code])
            /\ newCheat' = EmptyForm
       ELSE UNCHANGED <<cheats, newCheat>>
    /\ calls' = <<>>
    /\ notes' = <<>>
    /\ ev' = PanelEvent("addResponse", r.n, result, IF result = "entry" THEN id ELSE 0, <<>>)
    /\ UNCHANGED <<ctlVars, bootVars, fmtArg, fmtResult, navigated, quitListener, cheatTable>>

\* Cheats.vue lines 79-85: the delete button of the row with id cheatId is
\* clicked and the prompt is answered. Declined, deleteCheat returns;
\* confirmed, it sends the delete request and awaits it.
deleteCheat(cheatId, confirmed) ==
    /\ cheatId \in IdsOf(cheats)
    /\ FreeRequests # {}
    /\ LET n == CHOOSE k \in FreeRequests : \A j \in FreeRequests : k <= j
       IN  IF ~confirmed
           THEN /\ calls' = <<>>
                /\ ev' = PanelEvent("deleteCheat", 0, "declined", cheatId, <<>>)
                /\ UNCHANGED pending
           ELSE /\ pending' = pending \cup {Request(n, "delete", cheatId, EmptyForm)}
                /\ calls' = <<Call("deleteRomCheat", cheatId, FALSE, "", 0)>>
                /\ ev' = PanelEvent("deleteCheat", n, "confirmed", cheatId, <<>>)
    /\ notes' = <<>>
    /\ UNCHANGED <<ctlVars, bootVars, fmtArg, fmtResult, navigated, quitListener, cheatTable, cheats, newCheat>>

\* Cheats.vue lines 82-89: deleteRomCheat settles for request r; on success
\* the rows with the request's id are filtered out of the list.
DeleteResponse(r, success) ==
    /\ r \in pending /\ r.kind = "delete"
    /\ pending' = pending \ {r}
    /\ cheats' = IF success THEN deleteFilter(cheats, r.cheatId) ELSE cheats
    /\ calls' = <<>>
    /\ notes' = <<>>
    /\ ev' = PanelEvent("deleteResponse", r.n, IF success THEN "success" ELSE "failure", r.cheatId,
                        IF success THEN SelectSeq(cheats, LAMBDA c : c.id = r.cheatId) ELSE <<>>)
    /\ UNCHANGED <<ctlVars, bootVars, fmtArg, fmtResult, navigated, quitListener, cheatTable, newCheat>>

\* The cheat panel of the details view, opened on a game with any of the
\* backend's lists.
InitPanel ==
    /\ InitPlayer(NoProps, FALSE)
    /\ InitBoot(DefaultOpts, {})
    /\ fmtArg = <<>> /\ fmtResult = <<>>
    /\ navigated = FALSE
    /\ quitListener = "unobserved"
    /\ cheatTable = NoTable
    /\ cheats \in CheatLists
    /\ newCheat = EmptyForm
    /\ pending = {}

NextPanel ==
    \/ \E f \in Forms : TypeCheat(f)
    \/ addCheat
    \/ \E r \in pending, result \in AddResults, id \in PanelIds : AddResponse(r, result, id)
    \/ \E id \in PanelIds, confirmed \in BOOLEAN : deleteCheat(id, confirmed)
    \/ \E r \in pending, success \in DeleteResults : DeleteResponse(r, success)

SpecPanel == InitPanel /\ [][NextPanel]_vars

(* ------------------------------ claims -------------------------------- *)

IsCheatCall(c) == c.op \in {"resetCheat", "setCheat"}
IsLoadCall(c)  == c.op \in {"loadSave", "loadState"}
CallsOf(sq)    == {sq[i] : i \in 1..Len(sq)}

\* C1: every instance has at most one deferred cheat-apply timer pending, it
\* is the one its handle names, and a timer that a later scheduling
\* cancelled is no longer pending (so it never fires).
C1_AtMostOnePendingTimer ==
    /\ \A s \in Sessions : Cardinality({tm \in timers : tm.sess = s}) <= 1
    /\ \A tm \in timers : cheatUpdateTimeout[tm.sess] = tm.id
    /\ ev.cancelled # 0 => \A tm \in timers : tm.id # ev.cancelled

\* A game-started sequence has just scheduled its timer and cancelled the
\* pending timer of an earlier sequence.
C1_Witness ==
    /\ ev.act = "cheats"
    /\ ev.cancelled # 0
    /\ \E tm \in timers : tm.id = ev.id /\ tm.sess = ev.by

\* C2: no resetCheat or setCheat is made for an instance that was unmounted
\* while its deferred cheat-apply timer was pending.
C2_NoCheatCallAfterUnmount ==
    \A c \in CallsOf(calls) : IsCheatCall(c) => c.by \notin pendingAtUnmount

\* C3: once no cheat fetch is in flight, the buffer is the formatted list
\* that the most recently triggered loadCheatCodes was answered with.
C3_SecondListWins ==
    ((\A t \in tasks : t.pc # "fetch") /\ latestResp.st = "list")
        => EJS_cheats = formatCheatCodesForEmulatorJS(latestResp.list)

\* C4: a response that arrives for an unmounted instance is discarded: a
\* cheat-list response leaves the buffer as it was, and a save or state pull
\* response leads to no native load-save/load-state call.
C4_LateResponseDiscarded ==
    [][ /\ (ev'.act = "cheats" /\ Unmounted(ev'.by)) => EJS_cheats' = EJS_cheats
        /\ (ev'.act = "pull" /\ Unmounted(ev'.by))
              => \A c \in CallsOf(calls') : ~IsLoadCall(c) ]_vars

\* C5: every change of the buffer empties it or replaces it, entry for
\* entry, by the (name, code) pairs of the one fetch response that the step
\* delivered; so the buffer is always empty or one whole formatted response.
C5_BufferReplacedWholesale ==
    [][ EJS_cheats' # EJS_cheats =>
          \/ EJS_cheats' = <<>>
          \/ /\ ev'.act = "cheats" /\ ev'.arg = "list"
             /\ Len(EJS_cheats') = Len(ev'.list)
             /\ \A i \in 1..Len(ev'.list) :
                   EJS_cheats'[i] = <<ev'.list[i].name, ev'.list[i].code>> ]_vars

\* The response to a later trigger has just replaced the buffer with its list.
C5_Witness ==
    /\ ev.act = "cheats" /\ ev.arg = "list" /\ ev.id >= 2
    /\ EJS_cheats # <<>>
    /\ Len(EJS_cheats) = Len(ev.list)

\* C6: one run of the deferred apply on a ready runtime issues exactly
\* resetCheat(), setCheat(0, false, code_0), ..., setCheat(n-1, false, code_n-1).
C6_ExactCallSequence ==
    (ev.act = "timer" /\ ev.arg = "ready")
        => calls = <<Call("resetCheat", 0, FALSE, "", ev.by)>>
                     \o [i \in 1..Len(EJS_cheats) |->
                            Call("setCheat", i - 1, FALSE, EJS_cheats[i][2], ev.by)]

\* C7: when the runtime does not expose the cheat-table surface, the deferred
\* apply calls no native cheat-table method and shows no notification.
C7_SilentSkip ==
    (ev.act = "timer" /\ ev.arg # "ready")
        => /\ \A c \in CallsOf(calls) : ~IsCheatCall(c)
           /\ notes = <<>>

C9_PullFailureDoesNotAbort ==
    (ev.act = "pull" /\ ev.arg = "reject")
        => \E t \in tasks : t.id = ev.id /\ t.pc \in {"state", "fetch"}

PcIn(S, id) == IF \E t \in S : t.id = id THEN (CHOOSE t \in S : t.id = id).pc ELSE "none"

\* The moves of a game-started sequence mounted with props p.
StepAllowed(old, new, p) ==
    \/ old = new
    \/ old = "none" /\ new = "delay"
    \/ old = "delay" /\ new = "save" /\ p.save
    \/ old = "delay" /\ new = "state" /\ ~p.save /\ p.state
    \/ old = "delay" /\ new = "fetch" /\ ~p.save /\ ~p.state
    \/ old = "save" /\ new \in {"saveFile", "none"}
    \/ old \in {"save", "saveFile"} /\ new = "state" /\ p.state
    \/ old \in {"save", "saveFile"} /\ new = "fetch" /\ ~p.state
    \/ old = "state" /\ new \in {"stateFile", "fetch", "none"}
    \/ old = "stateFile" /\ new = "fetch"
    \/ old = "fetch" /\ new = "none"

\* C10: a game-started sequence goes through its steps in the order save
\* restore (if supplied), state restore (if supplied), forcing the save
\* location, cheat re-fetch, scheduling; one step at a time. The save
\* location is forced, and the buffer cleared, exactly as the re-fetch starts;
\* a restore calls the runtime only from its own step; the timer is
\* scheduled only as the re-fetch ends.
C10_StepsInOrder ==
    [][ /\ \A id \in TaskIds :
             (\E t \in tasks \cup tasks' : t.id = id /\ t.kind = "gs") =>
                LET old == PcIn(tasks, id)
                    new == PcIn(tasks', id)
                    s   == (CHOOSE t \in tasks \cup tasks' : t.id = id).sess
                IN  /\ StepAllowed(old, new, props[s])
                    /\ (old # "fetch" /\ new = "fetch")
                          => /\ calls'[Len(calls')] = Call("setSaveLocation", 0, FALSE, "browser", s)
                             /\ EJS_cheats' = <<>>
                    /\ (old # new /\ \E c \in CallsOf(calls') : c.op = "loadSave")
                          => old \in {"save", "saveFile"}
                    /\ (old # new /\ \E c \in CallsOf(calls') : c.op = "loadState")
                          => old \in {"state", "stateFile"}
        /\ \A tm \in timers' \ timers :
             \E t \in tasks : t.id = tm.id /\ t.kind = "gs" /\ t.pc = "fetch" ]_vars

\* A sequence mounted with both a save and a state has restored both and
\* has just scheduled its timer.
C10_Witness ==
    /\ ev.act = "cheats"
    /\ props[ev.by].save /\ props[ev.by].state
    /\ \E tm \in timers : tm.id = ev.id
    /\ EJS_cheats # <<>>

\* C11: a step in which a trigger (mount, game-identifier change, the
\* game-started sequence) begins its cheat fetch leaves the buffer empty and
\* no deferred cheat-apply timer of that instance pending.
C11_TriggerCancelsTimer ==
    (/\ ev.act \in {"onMounted", "watch", "delay", "pull", "file"}
     /\ \E t \in tasks : t.id = ev.id /\ t.pc = "fetch")
        => /\ EJS_cheats = <<>>
           /\ \A tm \in timers : tm.sess # ev.by

\* C12: a pull answered with an empty response (a zero-length buffer, or no
\* data at all) makes no native load-save/load-state call and goes on to the
\* local file selection; no native load is ever given an empty backend blob.
C12_EmptyPullFallsThrough ==
    /\ (ev.act = "pull" /\ ev.arg \in {"emptyBytes", "nothing"})
          => /\ \A c \in CallsOf(calls) : ~IsLoadCall(c)
             /\ \E t \in tasks : t.id = ev.id /\ t.pc \in {"saveFile", "stateFile"}
    /\ \A c \in CallsOf(calls) : IsLoadCall(c) => c.arg # "emptyBytes"

\* C13: a pull of a kind is issued only when that artifact was supplied at
\* mount (never by onMounted itself, never for a session mounted with
\* neither), and a game-started sequence issues the pull of every supplied
\* kind: it leaves its delay into the save pull when a save was supplied, and
\* it leaves its save restore (or, with no save, its delay) into the state
\* pull when a state was supplied.
C13_PullIffSupplied ==
    [][ \A id \in TaskIds :
          (\E t \in tasks \cup tasks' : t.id = id) =>
             LET old == PcIn(tasks, id)
                 new == PcIn(tasks', id)
                 t   == CHOOSE u \in tasks \cup tasks' : u.id = id
                 p   == props[t.sess]
             IN  /\ (new = "save" /\ old # new) => (p.save /\ t.kind = "gs")
                 /\ (new = "state" /\ old # new) => (p.state /\ t.kind = "gs")
                 /\ (old = "delay" /\ new # old /\ p.save) => new = "save"
                 /\ (old = "delay" /\ new # old /\ ~p.save /\ p.state) => new = "state"
                 /\ (old = "save" /\ new # old /\ p.state) => new \in {"saveFile", "state"}
                 /\ (old = "saveFile" /\ new # old /\ p.state) => new = "state" ]_vars

IsPush(t) == t.kind \in {"pushSave", "pushState"}

\* C14: a save-requested or save-state-requested event starts exactly one
\* upload and shows nothing yet; when that upload settles, exactly one
\* notification is shown (the "synced" one if a record came back, the error
\* one otherwise) and the upload is over; no other step starts an upload, so
\* a failed push is not retried.
C14_OneUploadOneNote ==
    [][ /\ ev'.act \in {"saveRequested", "stateRequested"}
              => /\ tasks \subseteq tasks'
                 /\ \E t \in tasks' \ tasks :
                       /\ tasks' \ tasks = {t}
                       /\ t.id = ev'.id /\ t.pc = "upload"
                       /\ t.kind = IF ev'.act = "saveRequested" THEN "pushSave" ELSE "pushState"
                 /\ notes' = <<>>
        /\ ev'.act \in {"pushSave", "pushState"}
              => /\ \E t \in tasks : t.id = ev'.id /\ t.kind = ev'.act /\ tasks' = tasks \ {t}
                 /\ Len(notes') = 1
                 /\ notes'[1] =
                       IF ev'.arg = "record"
                       THEN Note(IF ev'.act = "pushSave" THEN "Save synced with server"
                                                         ELSE "State synced with server", "msg-info")
                       ELSE Note(IF ev'.act = "pushSave" THEN "Error syncing save with server"
                                                         ELSE "Error syncing state with server", "msg-error")
        /\ ev'.act \notin {"saveRequested", "stateRequested"}
              => \A t \in tasks' \ tasks : ~IsPush(t) ]_vars

\* A save push has just failed: one error notification, no upload in flight.
C14_Witness ==
    /\ ev.act = "pushSave" /\ ev.arg = "none"
    /\ Len(notes) = 1 /\ notes[1].cls = "msg-error"
    /\ \A t \in tasks : ~IsPush(t)

IsLocalWrite(c) == c.op \in {"storage.saves.put", "storage.states.put"}

\* C15: every push that settles, of a save and of a state, with a record or
\* without, writes the blob to the runtime's browser-local storage.
C15_LocalWriteOnEveryPush ==
    ev.act \in {"pushSave", "pushState"} => \E c \in CallsOf(calls) : IsLocalWrite(c)

\* C16: no pull and push of the same artifact kind are in flight together.
C16_NoPullPushOverlap ==
    \A t, u \in tasks :
        /\ ~(t.pc = "save" /\ u.kind = "pushSave")
        /\ ~(t.pc = "state" /\ u.kind = "pushState")

\* C17: the unmount handler is idempotent. From every state, a run of the
\* handler does not throw, leaves the handle null, the instance's handlers
\* unregistered and both flags false, and cancels only the timer the handle
\* names; a second run right after it does not throw, cancels nothing and
\* leaves everything as the first run left it. In particular the state that
\* onBeforeUnmount has just left is one the handler would not change.
C17_TeardownIdempotent ==
    LET once  == Teardown(TeardownView)
        twice == Teardown(once)
    IN  /\ ~once.thrown /\ ~twice.thrown
        /\ once.handle = 0
        /\ cur \notin once.registered
        /\ ~once.playing /\ ~once.fullScreen
        /\ \A tm \in timers \ once.timers : tm.id = cheatUpdateTimeout[cur]
        /\ twice.timers = once.timers
        /\ twice = once
        /\ ev.act = "unmount" => once = TeardownView

\* The view was unmounted while playing, with handlers registered and a
\* sequence still in flight, and the handler cancelled the pending timer.
C17_Witness ==
    /\ ev.act = "unmount" /\ ev.arg = "playing"
    /\ ev.cancelled # 0
    /\ tasks # {}
    /\ ~playing /\ ~fullScreen /\ cheatUpdateTimeout[cur] = 0

\* C18: no instance that was unmounted has its save-selected/state-selected
\* handlers registered, and no runtime hook (game-started, save-requested,
\* save-state-requested) runs controller code for an unmounted instance.
C18_NoCallbackAfterUnmount ==
    /\ \A s \in registered : ~Unmounted(s)
    /\ ev.act \in {"gameStart", "saveRequested", "stateRequested"} => ~Unmounted(ev.by)

\* C19: once the mount of the mounted instance is over (its onMounted is no
\* longer suspended at the cheat fetch), the save-selected and state-selected
\* handlers of that instance are registered, however the fetch ended.
C19_MountRegistersHandlers ==
    (life = "mounted" /\ \A t \in tasks : ~(t.kind = "mount" /\ t.sess = cur))
        => cur \in registered

\* C20: Bootstrap leaves the buffer empty whatever the previous instance left
\* in it, and an empty buffer stays empty until a cheat-fetch response is
\* delivered; so between Bootstrap and the first response the buffer holds no
\* entry of an earlier instance.
C20_BootstrapResetsBuffer ==
    [][ /\ ev'.act = "setup" => EJS_cheats' = <<>>
        /\ (EJS_cheats = <<>> /\ ev'.act # "cheats") => EJS_cheats' = <<>> ]_vars

\* Bootstrap of a later instance has just run over a buffer the previous
\* instance had left non-empty.
C20_Witness ==
    /\ ev.act = "setup" /\ ev.arg = "stale"
    /\ cur > 1
    /\ EJS_cheats = <<>>

\* C21: the core Bootstrap assigns is the requested core when the platform's
\* supported cores contain it, and otherwise (also with no request) the first
\* supported core; the thread flag is the one of the assigned core.
C21_CoreResolution ==
    LET member == /\ ~opts.core.null
                  /\ \E i \in 1..Len(opts.supported) : opts.supported[i] = opts.core.name
    IN  /\ member => config.core = opts.core.name
        /\ (~member /\ opts.supported # <<>>) => config.core = opts.supported[1]
        /\ config.threads = (config.core \in ThreadedCores)

\* Bootstrap has run for a later instance with a request for the threaded
\* core on a platform that does not support it: the default core, no threads.
C21_Witness ==
    /\ ev.act = "setup" /\ cur > 1
    /\ opts.core.name = "ppsspp"
    /\ opts.supported # <<>> /\ config.core = opts.supported[1] /\ config.core # "ppsspp"
    /\ ~config.threads

C23_WatchKeepsConfig ==
    [][ /\ ev'.act = "watch"
              => /\ config' = config
                 /\ \E t \in tasks' \ tasks :
                       /\ tasks' \ tasks = {t}
                       /\ t.kind = "watch" /\ t.pc = "fetch"
                       /\ t.rom = (IF romId'[cur] = 123 THEN "123" ELSE "456")
                 /\ EJS_cheats' = <<>>
        /\ (ev'.act = "cheats" /\ \E t \in tasks : t.id = ev'.id /\ t.kind = "watch")
              => config' = config ]_vars

\* After a change to game 456 the response has filled the buffer, and the
\* configuration still names game 123.
C23_Witness ==
    /\ ev.act = "cheats" /\ ev.arg = "list"
    /\ romId[cur] = 456 /\ config.gameID = 123
    /\ life = "mounted"
    /\ EJS_cheats # <<>>

\* C24: right after mount, the firmware entry (keyed by platform) holds the
\* firmware id if a firmware was supplied and is absent otherwise; likewise
\* the core entry (keyed by platform) and the disc entry (keyed by game id),
\* for every supplied value, disc index 0 included.
C24_StorageAfterMount ==
    ev.act = "onMounted" =>
        LET game == IF romId[cur] = 123 THEN "123" ELSE "456"
        IN  /\ getItem(localStorage, "player:nes:bios_id")
                 = (IF opts.bios.null THEN "null" ELSE "7")
            /\ getItem(localStorage, "player:nes:core")
                 = (IF opts.core.null THEN "null" ELSE opts.core.name)
            /\ getItem(localStorage, "player:" \o game \o ":disc")
                 = (IF opts.disc.null THEN "null"
                    ELSE IF opts.disc.v = 0 THEN "0"
                    ELSE IF opts.disc.v = 1 THEN "1" ELSE "2")

\* C25: the mount step issues exactly one cheat-list fetch, for the string
\* form of the mounted game's identifier; the instance had no mount fetch
\* before, and no other step issues a mount fetch.
C25_MountFetchesOnce ==
    [][ LET new == tasks' \ tasks
        IN  /\ ev'.act = "onMounted"
                  => /\ \E t \in new : /\ new = {t}
                                       /\ t.kind = "mount" /\ t.pc = "fetch" /\ t.sess = cur'
                                       /\ t.rom = (IF romId'[cur'] = 123 THEN "123" ELSE "456")
                     /\ \A u \in tasks : ~(u.kind = "mount" /\ u.sess = cur')
            /\ ev'.act # "onMounted"
                  => \A t \in new : ~(t.kind = "mount" /\ t.pc = "fetch") ]_vars

\* C25 witness: a second instance, opened on game 456, has mounted and its
\* one fetch for "456" is in flight.
C25_Witness ==
    /\ ev.act = "onMounted"
    /\ romId[cur] = 456
    /\ \E t \in tasks : t.kind = "mount" /\ t.sess = cur /\ t.rom = "456" /\ t.pc = "fetch"
    /\ Cardinality({t \in tasks : t.kind = "mount" /\ t.sess = cur}) = 1

\* C27: for every raw title, the display name holds no character of the
\* invalid-character set (carriage return and line feed included), neither
\* starts nor ends with whitespace, and is the title's other characters in
\* their original order, less the whitespace at both ends.
C27_DisplayNameSanitized ==
    LET name    == config.gameName
        Keep(c) == c \notin {"#", "<", "$", "+", "%", ">", "!", "`", "&", "*", "'", "|",
                             "{", "}", "/", "\\", "?", "\"", "=", "@", ":", "^", "\r", "\n"}
        kept    == SelectSeq(opts.title, Keep)
    IN  /\ \A i \in 1..Len(name) : Keep(name[i])
        /\ name # <<>> => name[1] \notin WhiteSpace /\ name[Len(name)] \notin WhiteSpace
        /\ \E a \in 1..(Len(kept) + 1) : \E b \in 0..Len(kept) :
              /\ name = SubSeq(kept, a, b)
              /\ \A i \in 1..Len(kept) : (i < a \/ i > b) => kept[i] \in WhiteSpace

\* C27 witness: Bootstrap has run for a second instance on a title with a letter between two
\* invalid characters, and the display name is the letter alone.
C27_Witness ==
    /\ ev.act = "setup" /\ cur = 2
    /\ opts.title = <<":", "M", "#">>
    /\ config.gameName = <<"M">>

IsBack(c) == c.op = "history.back"

\* C26: a save-and-quit handler starts the state upload, starts the save
\* upload only in the step in which its state upload settles, and goes back
\* only in the step in which its save upload settles, when it has no upload
\* left in flight; nothing else goes back.
C26_QuitWaitsForPushes ==
    [][ LET ops  == {c.op : c \in CallsOf(calls')}
            mine == {t \in tasks : t.kind = "quit" /\ t.id = ev'.id}
            left == {t \in tasks' : t.kind = "quit" /\ t.id = ev'.id}
        IN  /\ "saveState" \in ops
                  => /\ \E t \in mine : t.pc = "screenshot"
                     /\ \A t \in left : t.pc = "quitState"
                     /\ "saveSave" \notin ops
            /\ "saveSave" \in ops
                  => /\ ev'.act = "quitState"
                     /\ \E t \in mine : t.pc = "quitState"
                     /\ \A t \in left : t.pc = "quitSave"
            /\ (\E c \in CallsOf(calls') : IsBack(c))
                  => /\ ev'.act = "quitSave"
                     /\ \E t \in mine : t.pc = "quitSave"
                     /\ left = {}
            /\ navigated' # navigated => \E c \in CallsOf(calls') : IsBack(c) ]_vars

\* C26 witness: a handler's save upload has just settled after its state
\* upload, and the handler has gone back with none of its uploads in flight.
C26_Witness ==
    /\ ev.act = "quitSave"
    /\ navigated
    /\ \E c \in CallsOf(calls) : IsBack(c)
    /\ ~\E t \in tasks : t.kind = "quit" /\ t.id = ev.id

RECURSIVE JoinCodes(_)
\* The codes of a cheat list joined by line feeds, in list order.
JoinCodes(list) ==
    IF list = <<>> THEN ""
    ELSE IF Len(list) = 1 THEN list[1].code
    ELSE list[1].code \o "\n" \o JoinCodes(Tail(list))

\* Whether the step to the next state is the mount fetch settling.
MountFetchSettles ==
    /\ ev'.act = "cheats"
    /\ \E t \in tasks : t.id = ev'.id /\ t.kind = "mount" /\ t \notin tasks'

\* C28: when the fetch of mount resolves with a non-empty list,
\* window.EJS_cheats becomes the string of the fetched codes joined by line
\* feeds in fetch order.
C28_BufferIsJoinedCodes ==
    [][ (MountFetchSettles /\ ev'.arg = "list" /\ ev'.list # <<>>)
            => EJS_cheatsValue(EJS_cheats') = JsString(JoinCodes(ev'.list)) ]_vars

\* C29: when the fetch of mount resolves with an empty list or fails,
\* window.EJS_cheats is undefined afterwards.
C29_BufferLeftUnset ==
    [][ (MountFetchSettles /\ (ev'.list = <<>> \/ ev'.arg # "list"))
            => EJS_cheatsValue(EJS_cheats') = JsUndefined ]_vars

\* C30: a declined delete prompt sends no request and leaves the list as it
\* was; a delete request is sent only by a confirmed prompt; and a row
\* leaves the list only in the step in which the backend acknowledges a
\* delete request, the list then being the old one without the rows of the
\* request's id and with every other row in place.
C30_DeleteNeedsConfirmAndAck ==
    [][ /\ (ev'.act = "deleteCheat" /\ ev'.arg = "declined")
              => /\ pending' = pending
                 /\ cheats' = cheats
                 /\ calls' = <<>>
        /\ (\E r \in pending' \ pending : r.kind = "delete")
              => /\ ev'.act = "deleteCheat" /\ ev'.arg = "confirmed"
                 /\ \E c \in CallsOf(calls') : c.op = "deleteRomCheat" /\ c.idx = ev'.cheatId
        /\ (IdsOf(cheats) \ IdsOf(cheats') # {} \/ Len(cheats') < Len(cheats))
              => /\ ev'.act = "deleteResponse" /\ ev'.arg = "success"
                 /\ \E r \in pending \ pending' :
                       /\ r.kind = "delete" /\ r.n = ev'.id
                       /\ IdsOf(cheats) \ IdsOf(cheats') = {r.cheatId}
                       /\ \E k \in 1..Len(cheats) :
                             /\ cheats[k].id = r.cheatId
                             /\ cheats' = SubSeq(cheats, 1, k - 1) \o SubSeq(cheats, k + 1, Len(cheats))
        /\ (ev'.act = "deleteResponse" /\ ev'.arg = "success")
              => \A i \in 1..Len(cheats') : cheats'[i].id # ev'.cheatId ]_vars

\* C30 witness: the backend has acknowledged a confirmed delete, the row with
\* that id has left the list and another row is still shown.
C30_Witness ==
    /\ ev.act = "deleteResponse" /\ ev.arg = "success"
    /\ Len(ev.list) = 1 /\ ev.list[1].id = ev.cheatId
    /\ cheats # <<>>
    /\ ev.cheatId \notin IdsOf(cheats)

C31_NothingAfterUnmount ==
    [][ \A s \in Sessions :
            Unmounted(s) => /\ \A tm \in timers' \ timers : tm.sess # s
                            /\ \A c \in CallsOf(calls') : IsCheatCall(c) => c.by # s ]_vars

\* C33: for every instance, the handle is null when none of its deferred
\* cheat-apply timers is pending, and otherwise names its one pending timer;
\* so it is null after the timer has fired and after unmount has cancelled
\* it, and never names a timer that has fired or been cancelled.
C33_HandleIffPending ==
    \A s \in Sessions :
        LET mine == {tm \in timers : tm.sess = s}
        IN  /\ cheatUpdateTimeout[s] = 0 <=> mine = {}
            /\ cheatUpdateTimeout[s] # 0 => mine = {[id |-> cheatUpdateTimeout[s], sess |-> s]}
            /\ (ev.act = "timer" /\ ev.by = s) => cheatUpdateTimeout[s] = 0
            /\ (ev.act = "unmount" /\ ev.by = s) => cheatUpdateTimeout[s] = 0

\* C33 witness: a deferred cheat-apply timer has fired, its callback has
\* written the cheat table, and the handle is null again.
C33_Witness ==
    /\ ev.act = "timer"
    /\ \E c \in CallsOf(calls) : c.op = "setCheat"
    /\ cheatUpdateTimeout[ev.by] = 0
    /\ \A tm \in timers : tm.sess # ev.by

\* C32: whenever a whole write sequence has been made, the instance is
\* mounted, no cheat fetch is in flight and no deferred apply is pending, the
\* runtime's cheat table holds the codes of the buffer, in buffer order.
C32_TableMatchesBuffer ==
    (/\ cheatTable.written
     /\ life = "mounted"
     /\ tasks = {}
     /\ timers = {})
        => cheatTable.codes = [i \in 1..Len(EJS_cheats) |-> EJS_cheats[i][2]]

\* C35: the reference is the save supplied at mount until loadSave is first
\* called; a step in which loadSave starts for an instance (the initial
\* restore, with the save supplied at mount, or a save-selected event, with
\* the selected save) switches the instance's reference to that save, and no
\* other step changes it, a pull that fails or returns nothing included;
\* every save upload, of the save-requested hook and of save-and-quit,
\* carries the reference of its instance.
C35_PushCarriesLatestSave ==
    [][ /\ nextId = 1 => saveRef[cur] = (IF props[cur].save THEN 1 ELSE 0)
        /\ \A s \in Sessions :
              LET started == {t \in tasks' : /\ t.sess = s /\ t.pc = "save"
                                             /\ \A u \in tasks : u.id = t.id => u.pc # "save"}
              IN  IF started # {}
                  THEN saveRef'[s] = (IF ev'.act = "saveSelected" THEN ev'.save ELSE 1)
                  ELSE saveRef'[s] = saveRef[s]
        /\ \A t \in tasks' \ tasks : t.kind = "pushSave" => t.save = saveRef'[t.sess]
        /\ \A c \in CallsOf(calls') : c.op = "saveSave" => c.idx = saveRef'[c.by] ]_vars

\* C35 witness: save 2 was selected, its pull is over, and the save upload
\* the runtime has just asked for carries save 2.
C35_Witness ==
    /\ ev.act = "saveRequested"
    /\ \E t \in tasks : t.id = ev.id /\ t.kind = "pushSave" /\ t.save = 2
    /\ \A t \in tasks : t.kind # "sel"

\* C34: in a behaviour in which the instance is never unmounted and the
\* runtime exposes its cheat methods whenever a deferred apply runs (requests
\* being answered and timers firing by fairness), every game-started event
\* is followed by a step in which the cheat table is written (a reset and
\* the set-cheat calls) and the timer handle is null again.
C34_ApplyEventuallyRuns ==
    ([](life # "unmounted") /\ [](ev.act = "timer" => ev.arg = "ready"))
        => [](ev.act = "gameStart"
                => <>(/\ ev.act = "timer" /\ ev.arg = "ready"
                      /\ \E c \in CallsOf(calls) : c.op = "resetCheat"
                      /\ cheatUpdateTimeout[cur] = 0))

=============================================================================
